---- MODULE Spec2Model ----
(***************************************************************************)
(* Iterator pattern of pattern.py: a BookCollection (ordered list of      *)
(* Book values) and BookIterator cursors walking it forward or in          *)
(* reverse by live index.  Positions are 0-based as in the Python source; *)
(* the TLA+ sequence element for index p is books[p + 1].                  *)
(***************************************************************************)
EXTENDS Integers, Sequences, FiniteSets, TLC

VARIABLES
    books,  \* BookCollection._books
    its,    \* the BookIterator objects created so far: handle -> [reverse, position]
    born,   \* history: per iterator, len(collection) when it was constructed
    hist,   \* history: per iterator, one entry per __next__ call
    last,   \* return value of the most recent pure read call (has_next, [], for, iter)
    cls,    \* the class of the collection object (decides which __getitem__ runs)
    lists,  \* the list objects of a program with several collections: id -> contents
    colls   \* the collections of that program: handle -> id of the list in _books

vars == <<books, its, born, hist, last, cls, lists, colls>>

\* ---------------------------------------------------------------- bounds
MaxBooks == 2
MaxCalls == 3

\* ---------------------------------------------------------------- values
Book(title, author) == [title |-> title, author |-> author]

Books == {Book("1984", "Orwell"), Book("Dune", "Herbert")}

Iters == {"it1", "it2"}

Colls == {"c1", "c2"}

NoBook == [title |-> "", author |-> ""]

Return(book) == [sig |-> "return", val |-> book]
StopIteration == [sig |-> "StopIteration", val |-> NoBook]
IndexError == [sig |-> "IndexError", val |-> NoBook]

NoCall == [op |-> "none"]

\* ------------------------------------------------------- BookCollection
Count(b) == Len(b)

GetItemNegativeWraps(b, index) ==
    IF 0 <= index /\ index < Len(b) THEN Return(b[index + 1])
    ELSE IF index < 0 /\ -index <= Len(b) THEN Return(b[Len(b) + index + 1])
    ELSE IndexError

GetItem(b, index) ==
    IF 0 <= index /\ index < Len(b) THEN Return(b[index + 1]) ELSE IndexError

\* ---------------------------------------------------- MockBookCollection
MockBook(mock_title, mock_author) == [title |-> mock_title, author |-> mock_author]

MockDataSource ==
    << MockBook("Mock Book 1", "Mock Author A"),
       MockBook("Mock Book 2", "Mock Author B"),
       MockBook("Mock Book 3", "Mock Author C") >>

Processed(original_mock_book) ==
    MockBook("Processed: " \o original_mock_book.title, original_mock_book.author)

MockGetItem(b, index) ==
    IF 0 <= index /\ index < Len(b) THEN Return(Processed(b[index + 1])) ELSE IndexError

\* collection[index]: the __getitem__ of the object's class
Subscript(b, index) ==
    IF cls = "MockBookCollection" THEN MockGetItem(b, index) ELSE GetItem(b, index)

\* --------------------------------------------------------- BookIterator
BookIteratorOffByOne(b, reverse) ==
    [reverse |-> reverse, position |-> IF reverse THEN Len(b) ELSE 0]

BookIteratorFromOne(b, reverse) ==
    [reverse |-> reverse, position |-> IF reverse THEN Len(b) - 1 ELSE 1]

BookIterator(b, reverse) ==
    [reverse |-> reverse, position |-> IF reverse THEN Len(b) - 1 ELSE 0]

CreateIterator(b) == BookIterator(b, FALSE)

GetReverseIterator(b) == BookIterator(b, TRUE)

DunderIterReversed(b) == BookIterator(b, TRUE)

DunderIter(b) == BookIterator(b, FALSE)

HasNextStrict(t, b) ==
    IF t.reverse THEN t.position > 0 ELSE t.position < Len(b)

HasNext(t, b) ==
    IF t.reverse THEN t.position >= 0 ELSE t.position < Len(b)

DunderNextWraps(t, b) ==
    IF ~HasNext(t, b)
    THEN [res |-> StopIteration,
          position |-> IF t.reverse THEN Len(b) - 1 ELSE 0]
    ELSE LET book == Subscript(b, t.position)
         IN IF book.sig = "IndexError"
            THEN [res |-> IndexError, position |-> t.position]
            ELSE [res |-> book,
                  position |-> t.position + (IF t.reverse THEN -1 ELSE 1)]

DunderNextAlwaysAdvances(t, b) ==
    IF ~HasNext(t, b)
    THEN [res |-> StopIteration,
          position |-> t.position + (IF t.reverse THEN -1 ELSE 1)]
    ELSE LET book == Subscript(b, t.position)
         IN IF book.sig = "IndexError"
            THEN [res |-> IndexError, position |-> t.position]
            ELSE [res |-> book,
                  position |-> t.position + (IF t.reverse THEN -1 ELSE 1)]

DunderNextPreIncrement(t, b) ==
    IF ~HasNext(t, b)
    THEN [res |-> StopIteration, position |-> t.position]
    ELSE LET moved == t.position + (IF t.reverse THEN -1 ELSE 1)
             book == Subscript(b, moved)
         IN IF book.sig = "IndexError"
            THEN [res |-> IndexError, position |-> moved]
            ELSE [res |-> book, position |-> moved]

DunderNextReadsStorage(t, b) ==
    IF ~HasNext(t, b)
    THEN [res |-> StopIteration, position |-> t.position]
    ELSE LET book == GetItem(b, t.position)
         IN IF book.sig = "IndexError"
            THEN [res |-> IndexError, position |-> t.position]
            ELSE [res |-> book,
                  position |-> t.position + (IF t.reverse THEN -1 ELSE 1)]

DunderNext(t, b) ==
    IF ~HasNext(t, b)
    THEN [res |-> StopIteration, position |-> t.position]
    ELSE LET book == Subscript(b, t.position)
         IN IF book.sig = "IndexError"
            THEN [res |-> IndexError, position |-> t.position]
            ELSE [res |-> book,
                  position |-> t.position + (IF t.reverse THEN -1 ELSE 1)]

\* ------------------------------------------------------------ the loops
\* for book in collection: iter(), then __next__ until StopIteration
RECURSIVE ForLoop(_, _, _)
ForLoop(t, b, fuel) ==
    LET r == DunderNext(t, b)
    IN IF fuel = 0 \/ r.res.sig # "return"
       THEN <<>>
       ELSE <<r.res.val>> \o ForLoop([t EXCEPT !.position = r.position], b, fuel - 1)

ForEach(b) == ForLoop(DunderIter(b), b, Len(b) + 1)

\* while iterator.has_next(): iterator.__next__()
RECURSIVE WhileLoop(_, _, _)
WhileLoop(t, b, fuel) ==
    IF fuel = 0 \/ ~HasNext(t, b)
    THEN <<>>
    ELSE LET r == DunderNext(t, b)
         IN IF r.res.sig # "return"
            THEN <<>>
            ELSE <<r.res.val>> \o WhileLoop([t EXCEPT !.position = r.position], b, fuel - 1)

GofLoop(b) == WhileLoop(CreateIterator(b), b, Len(b) + 1)

\* ------------------------------------------------------------- actions
Init ==
    /\ books = <<>>
    /\ its = <<>>
    /\ born = <<>>
    /\ hist = <<>>
    /\ last = NoCall
    /\ cls = "BookCollection"
    /\ lists = <<>>
    /\ colls = <<>>

add_book_prepends(book) ==
    /\ Len(books) < MaxBooks
    /\ books' = <<book>> \o books
    /\ last' = NoCall
    /\ UNCHANGED <<its, born, hist, cls, lists, colls>>

add_book(book) ==
    /\ Len(books) < MaxBooks
    /\ books' = Append(books, book)
    /\ last' = NoCall
    /\ UNCHANGED <<its, born, hist, cls, lists, colls>>

Register(i, t) ==
    /\ i \notin DOMAIN its
    /\ its' = [j \in DOMAIN its \cup {i} |-> IF j = i THEN t ELSE its[j]]
    /\ born' = [j \in DOMAIN its \cup {i} |-> IF j = i THEN Len(books) ELSE born[j]]
    /\ hist' = [j \in DOMAIN its \cup {i} |-> IF j = i THEN <<>> ELSE hist[j]]
    /\ last' = NoCall
    /\ UNCHANGED <<books, cls, lists, colls>>

create_iterator(i) == Register(i, CreateIterator(books))

get_reverse_iterator(i) == Register(i, GetReverseIterator(books))

iter(i) == Register(i, DunderIter(books))

has_next_consumes(i) ==
    /\ i \in DOMAIN its
    /\ last' = [op |-> "has_next", it |-> i, ret |-> HasNext(its[i], books)]
    /\ its' = [its EXCEPT ![i].position = DunderNext(its[i], books).position]
    /\ UNCHANGED <<books, born, hist, cls, lists, colls>>

has_next(i) ==
    /\ i \in DOMAIN its
    /\ last' = [op |-> "has_next", it |-> i, ret |-> HasNext(its[i], books)]
    /\ UNCHANGED <<books, its, born, hist, cls, lists, colls>>

RECURSIVE Calls(_)
Calls(S) ==
    IF S = {} THEN 0
    ELSE LET i == CHOOSE j \in S : TRUE IN Len(hist[i]) + Calls(S \ {i})

Called(i, r) ==
    Append(hist[i], [pos |-> its[i].position, len |-> Len(books), res |-> r.res])

next_shared_cursor(i) ==
    /\ i \in DOMAIN its
    /\ Calls(DOMAIN its) < MaxCalls
    /\ LET r == DunderNext(its[i], books)
       IN /\ its' = [j \in DOMAIN its |-> [its[j] EXCEPT !.position = r.position]]
          /\ hist' = [hist EXCEPT ![i] = Called(i, r)]
    /\ last' = NoCall
    /\ UNCHANGED <<books, born, cls, lists, colls>>

next(i) ==
    /\ i \in DOMAIN its
    /\ Calls(DOMAIN its) < MaxCalls
    /\ LET r == DunderNext(its[i], books)
       IN /\ its' = [its EXCEPT ![i].position = r.position]
          /\ hist' = [hist EXCEPT ![i] = Called(i, r)]
    /\ last' = NoCall
    /\ UNCHANGED <<books, born, cls, lists, colls>>

getitem(index) ==
    /\ last' = [op |-> "getitem", index |-> index, ret |-> Subscript(books, index)]
    /\ UNCHANGED <<books, its, born, hist, cls, lists, colls>>

for_each ==
    /\ last' = [op |-> "for", ret |-> ForEach(books)]
    /\ UNCHANGED <<books, its, born, hist, cls, lists, colls>>

\* Iterator.__iter__: return self
IteratorDunderIter(i) == i

iterator_iter_restarts(i) ==
    /\ i \in DOMAIN its
    /\ last' = [op |-> "__iter__", it |-> i, ret |-> IteratorDunderIter(i)]
    /\ its' = [its EXCEPT ![i] = BookIterator(books, its[i].reverse)]
    /\ UNCHANGED <<books, born, hist, cls, lists, colls>>

iterator_iter(i) ==
    /\ i \in DOMAIN its
    /\ last' = [op |-> "__iter__", it |-> i, ret |-> IteratorDunderIter(i)]
    /\ UNCHANGED <<books, its, born, hist, cls, lists, colls>>

Next ==
    \/ \E book \in Books : add_book(book)
    \/ \E i \in Iters : create_iterator(i)
    \/ \E i \in Iters : get_reverse_iterator(i)
    \/ \E i \in Iters : iter(i)
    \/ \E i \in Iters : has_next(i)
    \/ \E i \in Iters : next(i)
    \/ \E index \in -1 .. MaxBooks : getitem(index)
    \/ for_each
    \/ \E i \in Iters : iterator_iter(i)

Spec == Init /\ [][Next]_vars

\* MockBookCollection(): the inherited __init__, then _books is the mock data
\* source ("we just use a subset for our mock test")
InitMock ==
    /\ \E n \in 0 .. Len(MockDataSource) : books = SubSeq(MockDataSource, 1, n)
    /\ its = <<>>
    /\ born = <<>>
    /\ hist = <<>>
    /\ last = NoCall
    /\ cls = "MockBookCollection"
    /\ lists = <<>>
    /\ colls = <<>>

SpecMock == InitMock /\ [][Next]_vars

\* ------------------------------------------- a program with two collections
\* the caller's own list object, passed to BookCollection(collection)
CallerList == 1

\* self._books = collection or []: the list object the new collection keeps,
\* "none" standing for the collection=None default; an empty list is falsy
BooksOf(given) ==
    IF given # "none" /\ lists[CallerList] # <<>> THEN CallerList ELSE Len(lists) + 1

Construct(c, given) ==
    /\ c \notin DOMAIN colls
    /\ LET kept == BooksOf(given)
       IN /\ colls' = [d \in DOMAIN colls \cup {c} |-> IF d = c THEN kept ELSE colls[d]]
          /\ lists' = IF kept > Len(lists) THEN Append(lists, <<>>) ELSE lists
    /\ UNCHANGED <<books, its, born, hist, last, cls>>

new_collection(c) == Construct(c, "none")

new_collection_from(c) == Construct(c, "caller")

add_book_to(c, book) ==
    /\ c \in DOMAIN colls
    /\ Len(lists[colls[c]]) < MaxBooks
    /\ lists' = [lists EXCEPT ![colls[c]] = Append(@, book)]
    /\ UNCHANGED <<books, its, born, hist, last, cls, colls>>

count_of(c) ==
    /\ c \in DOMAIN colls
    /\ last' = [op |-> "count", of |-> c, ret |-> Count(lists[colls[c]])]
    /\ UNCHANGED <<books, its, born, hist, cls, lists, colls>>

InitStore ==
    /\ books = <<>>
    /\ its = <<>>
    /\ born = <<>>
    /\ hist = <<>>
    /\ last = NoCall
    /\ cls = "BookCollection"
    /\ \E initial \in {<<>>} \cup {<<book>> : book \in Books} : lists = <<initial>>
    /\ colls = <<>>

NextStore ==
    \/ \E c \in Colls : new_collection(c)
    \/ \E c \in Colls : new_collection_from(c)
    \/ \E c \in Colls, book \in Books : add_book_to(c, book)
    \/ \E c \in Colls : count_of(c)

SpecStore == InitStore /\ [][NextStore]_vars

\* ------------------------------------------------------ history helpers
LastOf(s) == s[Len(s)]

\* the collection as it was when it held n records (add_book only appends)
Held(n) == SubSeq(books, 1, n)

\* the results a traversal t yields on its own, the collection holding
\* lens[k] records at its k-th call to __next__
RECURSIVE SoloRun(_, _, _)
SoloRun(t, lens, k) ==
    IF k > Len(lens) THEN <<>>
    ELSE LET r == DunderNext(t, Held(lens[k]))
         IN <<r.res>> \o SoloRun([t EXCEPT !.position = r.position], lens, k + 1)

Results(i) == [k \in 1 .. Len(hist[i]) |-> hist[i][k].res]

Schedule(i) == [k \in 1 .. Len(hist[i]) |-> hist[i][k].len]

\* --------------------------------------------------------------- claims

\* C1: a forward traversal created over n >= 1 records, with no add_book
\* during the traversal, returns the records at indices 0 .. n-1 in insertion
\* order on its first n calls to __next__ and raises StopIteration on call n+1.
C1_ForwardInOrder ==
    \A i \in DOMAIN its :
        (~its[i].reverse /\ born[i] >= 1) =>
            \A k \in 1 .. Len(hist[i]) :
                hist[i][k].len = born[i] =>
                    /\ k <= born[i] => hist[i][k].res = Return(books[k])
                    /\ k = born[i] + 1 => hist[i][k].res = StopIteration

C1_Witness ==
    \E i \in DOMAIN its :
        /\ ~its[i].reverse
        /\ born[i] = 2
        /\ Len(hist[i]) = 3
        /\ hist[i][3].len = 2
        /\ hist[i][3].res = StopIteration
        /\ books[1] # books[2]

\* C2: a reverse traversal created over n >= 1 records, with no add_book
\* during the traversal, returns the records at indices n-1 .. 0 on its first
\* n calls to __next__; after them has_next is false and call n+1 raises
\* StopIteration.
C2_ReverseInOrder ==
    \A i \in DOMAIN its :
        (its[i].reverse /\ born[i] >= 1) =>
            /\ \A k \in 1 .. Len(hist[i]) :
                   hist[i][k].len = born[i] =>
                       /\ k <= born[i] =>
                              hist[i][k].res = Return(books[born[i] - k + 1])
                       /\ k = born[i] + 1 => hist[i][k].res = StopIteration
            /\ (Len(hist[i]) >= born[i] /\ Len(books) = born[i]) =>
                   ~HasNext(its[i], books)

C2_Witness ==
    \E i \in DOMAIN its :
        /\ its[i].reverse
        /\ born[i] = 2
        /\ Len(hist[i]) = 3
        /\ hist[i][3].len = 2
        /\ hist[i][1].res = Return(books[2])
        /\ hist[i][3].res = StopIteration
        /\ books[1] # books[2]

\* C3: right after either factory made it, a traversal is Active (has_next
\* true) iff the collection was non-empty then; made over an empty collection,
\* has_next is false and its first __next__ raises StopIteration.
C3_ActiveIffNonEmpty ==
    /\ \A i \in DOMAIN its :
           /\ (hist[i] = <<>> /\ Len(books) = born[i]) =>
                  (HasNext(its[i], books) <=> born[i] > 0)
           /\ (born[i] = 0 /\ Len(hist[i]) >= 1 /\ hist[i][1].len = 0) =>
                  hist[i][1].res = StopIteration
    /\ (/\ last.op = "has_next"
        /\ hist[last.it] = <<>>
        /\ Len(books) = born[last.it]) => (last.ret <=> born[last.it] > 0)

C3_Witness ==
    /\ DOMAIN its = Iters
    /\ \E i, j \in Iters :
           /\ its[i].reverse /\ ~its[j].reverse
           /\ born[i] = 0 /\ born[j] = 0
           /\ Len(hist[i]) = 1 /\ hist[i][1].res = StopIteration
           /\ hist[j] = <<>>
    /\ last.op = "has_next" /\ ~last.ret /\ ~its[last.it].reverse

\* C4: two traversals of one collection advance independently: whatever the
\* interleaving of their __next__ calls, each observes the results (records
\* and point of exhaustion) it yields when run on its own.
C4_Independent ==
    \A i \in DOMAIN its :
        Results(i) = SoloRun(BookIterator(Held(born[i]), its[i].reverse), Schedule(i), 1)

C4_Witness ==
    /\ Len(books) = 2
    /\ books[1] # books[2]
    /\ \E i, j \in DOMAIN its :
           /\ ~its[i].reverse /\ ~its[j].reverse
           /\ born[i] = 2 /\ born[j] = 2
           /\ Len(hist[i]) = 2 /\ hist[i][2].res = Return(books[2])
           /\ Len(hist[j]) = 1 /\ hist[j][1].res = Return(books[1])
           /\ its[i].position = 2 /\ its[j].position = 1

\* C5 as stated: once has_next is false on a traversal it is false in every
\* later state, whatever happens next (add_book included).
C5_ExhaustedForever ==
    [][\A i \in DOMAIN its :
          ~HasNext(its[i], books) => ~HasNext(its'[i], books')]_vars

\* C5 amended: a reverse traversal that is Exhausted stays Exhausted whatever
\* happens next; a forward traversal that is Exhausted stays Exhausted across
\* every operation except add_book; while Exhausted, __next__ raises
\* StopIteration.
C5_ExhaustedUntilAppend ==
    [][\A i \in DOMAIN its :
          (~HasNext(its[i], books) /\ (its[i].reverse \/ books' = books)) =>
              /\ ~HasNext(its'[i], books')
              /\ Len(hist'[i]) > Len(hist[i]) =>
                     LastOf(hist'[i]).res = StopIteration]_vars

C5_Witness ==
    \E i \in DOMAIN its :
        /\ its[i].reverse
        /\ born[i] = 1
        /\ Len(books) = 2
        /\ Len(hist[i]) = 3
        /\ hist[i][1].res = Return(books[1])
        /\ hist[i][2].res = StopIteration /\ hist[i][2].len = 1
        /\ hist[i][3].res = StopIteration /\ hist[i][3].len = 2
        /\ ~HasNext(its[i], books)

\* C6 as stated: with no __next__ on a traversal in between, has_next on it
\* keeps its result, whatever else happens (add_book included).
C6_HasNextIdempotent ==
    [][\A i \in DOMAIN its :
          Len(hist'[i]) = Len(hist[i]) =>
              HasNext(its'[i], books') = HasNext(its[i], books)]_vars

\* C6 amended: with no __next__ on a traversal in between, has_next on it
\* keeps its result across has_next calls, lookups, for loops, creation of
\* and __next__ on other traversals; across add_book too when the traversal
\* is a reverse one.  A call of has_next returns that result.
C6_HasNextIdempotentUntilAppend ==
    [][\A i \in DOMAIN its :
          /\ (Len(hist'[i]) = Len(hist[i]) /\ (its[i].reverse \/ books' = books)) =>
                 HasNext(its'[i], books') = HasNext(its[i], books)
          /\ (last'.op = "has_next" /\ last'.it = i) =>
                 /\ last'.ret = HasNext(its[i], books)
                 /\ last'.ret = HasNext(its'[i], books')]_vars

C6_Witness ==
    /\ last.op = "has_next"
    /\ last.ret
    /\ its[last.it].reverse
    /\ born[last.it] = 2
    /\ hist[last.it] = <<>>
    /\ \E j \in DOMAIN its : j # last.it /\ Len(hist[j]) = 3

\* C7 as stated: for a traversal of either direction, every record appended
\* after its creation and before it raised StopIteration is among the records
\* it returned.
C7_AppendsVisible ==
    \A i \in DOMAIN its :
        (/\ Len(hist[i]) >= 1
         /\ LastOf(hist[i]).res = StopIteration
         /\ LastOf(hist[i]).len > born[i]) =>
            \A p \in born[i] .. LastOf(hist[i]).len - 1 :
                \E k \in 1 .. Len(hist[i]) :
                    hist[i][k].pos = p /\ hist[i][k].res = Return(books[p + 1])

\* C7 amended: for a forward traversal, every record appended after its
\* creation and before it raised StopIteration is among the records it
\* returned.
C7_AppendsVisibleForward ==
    \A i \in DOMAIN its :
        (/\ ~its[i].reverse
         /\ Len(hist[i]) >= 1
         /\ LastOf(hist[i]).res = StopIteration
         /\ LastOf(hist[i]).len > born[i]) =>
            \A p \in born[i] .. LastOf(hist[i]).len - 1 :
                \E k \in 1 .. Len(hist[i]) :
                    hist[i][k].pos = p /\ hist[i][k].res = Return(books[p + 1])

C7_Witness ==
    \E i \in DOMAIN its :
        /\ ~its[i].reverse
        /\ born[i] = 1
        /\ Len(hist[i]) = 3
        /\ hist[i][2].len = 2
        /\ hist[i][2].res = Return(books[2])
        /\ hist[i][3].res = StopIteration
        /\ books[1] # books[2]

\* C8: collection[index] raises IndexError exactly when index < 0 or
\* index >= count(), returns the record at index otherwise, and changes
\* neither the collection nor any traversal.
C8_Lookup ==
    /\ [](last.op = "getitem" =>
            /\ (last.ret = IndexError) <=>
                   (last.index < 0 \/ last.index >= Count(books))
            /\ (0 <= last.index /\ last.index < Count(books)) =>
                   last.ret = Return(books[last.index + 1]))
    /\ [][last'.op = "getitem" => (books' = books /\ its' = its)]_vars

C8_Witness ==
    /\ last.op = "getitem"
    /\ last.index = -1
    /\ last.ret = IndexError
    /\ Count(books) = 2
    /\ \E i \in DOMAIN its : its[i].position = 1

\* C9: when has_next is false, __next__ raises StopIteration, returns no
\* record, and leaves every cursor and direction and the collection as they
\* were (so a repeated call raises StopIteration again).
C9_StopLeavesState ==
    [][\A i \in DOMAIN its :
          (~HasNext(its[i], books) /\ Len(hist'[i]) = Len(hist[i]) + 1) =>
              /\ LastOf(hist'[i]).res = StopIteration
              /\ LastOf(hist'[i]).res.val = NoBook
              /\ its' = its
              /\ books' = books]_vars

C9_Witness ==
    \E i, j \in DOMAIN its :
        /\ i # j
        /\ ~its[i].reverse
        /\ born[i] = 1
        /\ Len(hist[i]) = 3
        /\ hist[i][2].res = StopIteration
        /\ hist[i][3].res = StopIteration
        /\ hist[i][3].pos = hist[i][2].pos
        /\ its[i].position = 1
        /\ its[j].reverse /\ its[j].position = 0

Returned(i) ==
    LET IsReturn(r) == r.sig = "return"
        got == SelectSeq(Results(i), IsReturn)
    IN [k \in 1 .. Len(got) |-> got[k].val]

\* C12: in every reachable state a forward cursor is within 0 .. count(),
\* a valid index when below count() and exactly count() when exhausted; a
\* reverse cursor is within -1 .. count()-1, a valid index when >= 0 and
\* exactly -1 when exhausted.
C12_CursorInRange ==
    \A i \in DOMAIN its :
        LET p == its[i].position
        IN IF its[i].reverse
           THEN /\ -1 <= p /\ p <= Count(books) - 1
                /\ HasNext(its[i], books) <=> p >= 0
                /\ HasNext(its[i], books) => GetItem(books, p).sig = "return"
                /\ ~HasNext(its[i], books) => p = -1
           ELSE /\ 0 <= p /\ p <= Count(books)
                /\ HasNext(its[i], books) <=> p < Count(books)
                /\ HasNext(its[i], books) => GetItem(books, p).sig = "return"
                /\ ~HasNext(its[i], books) => p = Count(books)

C12_Witness ==
    /\ Count(books) = 2
    /\ \E i, j \in DOMAIN its :
           /\ ~its[i].reverse /\ its[i].position = 2 /\ Len(hist[i]) = 2
           /\ its[j].reverse /\ its[j].position = -1 /\ born[j] = 1
           /\ Len(hist[j]) = 1

\* C13: when has_next is true, __next__ returns the lookup at the cursor held
\* at the call and then moves the cursor by one step, +1 forward, -1 reverse;
\* no step changes a traversal's direction, a forward cursor never decreases
\* and a reverse cursor never increases.
C13_StepByOne ==
    [][\A i \in DOMAIN its :
          /\ its'[i].reverse = its[i].reverse
          /\ ~its[i].reverse => its'[i].position >= its[i].position
          /\ its[i].reverse => its'[i].position <= its[i].position
          /\ (HasNext(its[i], books) /\ Len(hist'[i]) = Len(hist[i]) + 1) =>
                 /\ LastOf(hist'[i]).res = GetItem(books, its[i].position)
                 /\ LastOf(hist'[i]).res = Return(books[its[i].position + 1])
                 /\ its'[i].position =
                        its[i].position + (IF its[i].reverse THEN -1 ELSE 1)]_vars

C13_Witness ==
    /\ Count(books) = 2
    /\ books[1] # books[2]
    /\ \E i, j \in DOMAIN its :
           /\ ~its[i].reverse /\ its[i].position = 1
           /\ Len(hist[i]) = 1 /\ hist[i][1].res = Return(books[1])
           /\ its[j].reverse /\ its[j].position = -1 /\ born[j] = 2
           /\ Len(hist[j]) = 2 /\ hist[j][2].res = Return(books[1])

\* C14: has_next changes nothing; __next__ changes only the cursor of the
\* traversal it is called on (never a direction, the collection or another
\* traversal); creating a traversal changes neither the collection nor any
\* existing traversal.
C14_Frames ==
    [][/\ last'.op = "has_next" => UNCHANGED <<books, its, born, hist>>
       /\ \A i \in DOMAIN its :
              Len(hist'[i]) # Len(hist[i]) =>
                  /\ books' = books
                  /\ DOMAIN its' = DOMAIN its
                  /\ its'[i].reverse = its[i].reverse
                  /\ \A j \in DOMAIN its \ {i} :
                         its'[j] = its[j] /\ hist'[j] = hist[j]
       /\ DOMAIN its' # DOMAIN its =>
              /\ books' = books
              /\ \A j \in DOMAIN its : its'[j] = its[j] /\ hist'[j] = hist[j]]_vars

C14_Witness ==
    /\ last.op = "has_next"
    /\ DOMAIN its = Iters
    /\ Count(books) = 2
    /\ \E i, j \in Iters :
           /\ i # j
           /\ its[i].position = 1 /\ ~its[i].reverse /\ Len(hist[i]) = 1
           /\ its[j].position = 0 /\ ~its[j].reverse /\ Len(hist[j]) = 2
           /\ born[j] = 0

\* C15: the collection starts empty; add_book raises count() by exactly 1,
\* puts the record at index count()-1 and leaves every earlier index as it
\* was; no step lowers count() or changes what an index holds, so index i
\* holds the i-th record ever appended.
C15_AppendOnly ==
    /\ books = <<>>
    /\ [][/\ Count(books') >= Count(books)
          /\ \A k \in 0 .. Count(books) - 1 :
                 GetItem(books', k) = GetItem(books, k)
          /\ \A book \in Books :
                 add_book(book) =>
                     /\ Count(books') = Count(books) + 1
                     /\ GetItem(books', Count(books') - 1) = Return(book)]_vars

C15_Witness ==
    /\ Count(books) = 2
    /\ books[1] # books[2]
    /\ \E i \in DOMAIN its : born[i] = 1 /\ Len(hist[i]) = 2

\* C17: __next__ never raises IndexError: whenever has_next is true the
\* cursor is a valid index, so every call either returned a record or raised
\* StopIteration.
C17_NoIndexError ==
    \A i \in DOMAIN its :
        /\ HasNext(its[i], books) =>
               (0 <= its[i].position /\ its[i].position < Count(books))
        /\ DunderNext(its[i], books).res.sig # "IndexError"
        /\ \A k \in 1 .. Len(hist[i]) :
               hist[i][k].res.sig \in {"return", "StopIteration"}

C17_Witness ==
    /\ Count(books) = 2
    /\ \E i, j \in DOMAIN its :
           /\ its[i].reverse /\ born[i] = 1
           /\ Len(hist[i]) = 2 /\ hist[i][1].len = 2
           /\ ~its[j].reverse /\ born[j] = 0
           /\ Len(hist[j]) = 1 /\ hist[j][1].res = Return(books[1])

\* C18: a reverse traversal created over n records returns, whatever
\* add_book calls are interleaved, the records at indices n-1 .. 0 on its
\* first n calls and raises StopIteration on every later call; it never
\* returns a record appended after its creation, and created over an empty
\* collection it is never Active.
C18_ReverseSnapshot ==
    \A i \in DOMAIN its :
        its[i].reverse =>
            /\ \A k \in 1 .. Len(hist[i]) :
                   IF k <= born[i]
                   THEN /\ hist[i][k].pos = born[i] - k
                        /\ hist[i][k].res = Return(books[born[i] - k + 1])
                   ELSE hist[i][k].res = StopIteration
            /\ born[i] = 0 => ~HasNext(its[i], books)

C18_Witness ==
    /\ Count(books) = 2
    /\ books[1] # books[2]
    /\ \E i \in DOMAIN its :
           /\ its[i].reverse
           /\ born[i] = 1
           /\ Len(hist[i]) = 2
           /\ hist[i][1].len = 2 /\ hist[i][1].res = Return(books[1])
           /\ hist[i][2].res = StopIteration

\* C19: whatever add_book calls are interleaved, the records a forward
\* traversal has returned so far are the first records of the collection, as
\* many as its cursor says; every call made with the cursor below count()
\* returned the record at the cursor, so an exhausted forward traversal
\* returns a newly appended record on its next call.
C19_ForwardPrefix ==
    \A i \in DOMAIN its :
        ~its[i].reverse =>
            /\ Returned(i) = SubSeq(books, 1, its[i].position)
            /\ Len(Returned(i)) = its[i].position
            /\ \A k \in 1 .. Len(hist[i]) :
                   IF hist[i][k].pos < hist[i][k].len
                   THEN hist[i][k].res = Return(books[hist[i][k].pos + 1])
                   ELSE hist[i][k].res = StopIteration

C19_Witness ==
    /\ Count(books) = 2
    /\ books[1] # books[2]
    /\ \E i \in DOMAIN its :
           /\ ~its[i].reverse
           /\ born[i] = 1
           /\ Len(hist[i]) = 3
           /\ hist[i][2].res = StopIteration /\ hist[i][2].len = 1
           /\ hist[i][3].res = Return(books[2])

\* the number of records a traversal can still return from the collection as
\* it stands
Remaining(t, b) ==
    IF t.reverse THEN t.position + 1 ELSE Count(b) - t.position

\* C16: iter() on a traversal returns that same traversal and changes
\* nothing, so a for loop over it yields the records from its current cursor
\* on and never restarts; a traversal can return at most count() records,
\* each successful __next__ without add_book leaves one fewer to return, and
\* when none is left has_next is false and __next__ raises StopIteration.
C16_FiniteNoRestart ==
    /\ [](/\ last.op = "__iter__" => last.ret = last.it
          /\ \A i \in DOMAIN its :
                 LET t == its[IteratorDunderIter(i)]
                     rest == ForLoop(t, books, Count(books) + 1)
                 IN /\ Remaining(t, books) \in 0 .. Count(books)
                    /\ HasNext(t, books) <=> Remaining(t, books) > 0
                    /\ Len(rest) = Remaining(t, books)
                    /\ \A k \in 1 .. Len(rest) :
                           rest[k] = IF t.reverse
                                     THEN books[t.position + 2 - k]
                                     ELSE books[t.position + k])
    /\ [][/\ last'.op = "__iter__" => UNCHANGED <<books, its, born, hist>>
          /\ \A i \in DOMAIN its :
                 (Len(hist'[i]) = Len(hist[i]) + 1 /\ books' = books) =>
                     IF LastOf(hist'[i]).res.sig = "return"
                     THEN Remaining(its'[i], books') = Remaining(its[i], books) - 1
                     ELSE /\ LastOf(hist'[i]).res = StopIteration
                          /\ Remaining(its[i], books) = 0
                          /\ Remaining(its'[i], books') = 0]_vars

C16_Witness ==
    /\ last.op = "__iter__"
    /\ last.ret = last.it
    /\ Count(books) = 2
    /\ books[1] # books[2]
    /\ ~its[last.it].reverse
    /\ its[last.it].position = 1
    /\ Len(hist[last.it]) = 1
    /\ ForLoop(its[last.ret], books, 3) = <<books[2]>>

\* C11: over a collection whose lookup returns f(items[i]) (the mock's
\* "Processed: " copy), a forward traversal created over n records, with no
\* add_book during the traversal, returns f(items[0]) .. f(items[n-1]) in
\* that order, f applied once to each, and raises StopIteration on call n+1;
\* the for loop yields the same records.
C11_TraversalOverVariant ==
    /\ cls = "MockBookCollection"
    /\ \A i \in DOMAIN its :
           ~its[i].reverse =>
               \A k \in 1 .. Len(hist[i]) :
                   hist[i][k].len = born[i] =>
                       /\ k <= born[i] =>
                              hist[i][k].res = Return(Processed(books[k]))
                       /\ k = born[i] + 1 => hist[i][k].res = StopIteration
    /\ last.op = "for" =>
           last.ret = [k \in 1 .. Len(books) |-> Processed(books[k])]

C11_Witness ==
    /\ cls = "MockBookCollection"
    /\ books = SubSeq(MockDataSource, 1, 2)
    /\ \E i \in DOMAIN its :
           /\ ~its[i].reverse
           /\ born[i] = 2
           /\ Len(hist[i]) = 3
           /\ hist[i][1].res.val = MockBook("Processed: Mock Book 1", "Mock Author A")
           /\ hist[i][2].res.val = MockBook("Processed: Mock Book 2", "Mock Author B")
           /\ hist[i][3].res = StopIteration

\* C20: distinct collections have independent storage: add_book on one
\* collection changes neither the count nor the contents of another one,
\* whether the two were created without arguments or from the same
\* caller-supplied list, empty or not.
C20_IndependentStorage ==
    [][\A c \in DOMAIN colls : \A book \in Books :
          add_book_to(c, book) =>
              \A d \in DOMAIN colls \ {c} :
                  /\ Count(lists'[colls'[d]]) = Count(lists[colls[d]])
                  /\ lists'[colls'[d]] = lists[colls[d]]]_vars

====
